---- MODULE Spec2Model ----
(***************************************************************************)
(* Model of the cut-event simulation loop of kuka_cutting_sim.py: build a  *)
(* simulation for the current RigidBodyTree, seed it, StepTo the duration, *)
(* handle CutException / StopIteration / RuntimeError, append the segment  *)
(* to sim_slices, swap the tree and repeat.                                *)
(*                                                                         *)
(* Time is counted in ticks.  A RigidBodyTree is identified by its number  *)
(* of manipuland bodies; every cut adds one body.                          *)
(***************************************************************************)
EXTENDS Integers, Sequences, FiniteSets, TLC

\* ---------------------------------------------------------------- bounds
MaxDuration == 3      \* args.duration ranges over 1..MaxDuration ticks
MaxObjects == 2       \* args.n_objects ranges over 1..MaxObjects
MaxCuts == 2          \* at most this many CutExceptions in one run
RobotDofs == 1        \* position (and velocity) slots of the robot
BodyDofs == 1         \* position (and velocity) slots of one manipuland

\* ------------------------------------------------------ program constants
SamplePeriod == 2     \* logger publish period 1/60 s, in ticks
None == -1            \* Python's None for rbt_new and mrbv

VARIABLES
    pc,               \* position in the script
    duration,         \* args.duration
    animate_forever,  \* args.animate_forever
    q0,               \* initial posture returned by setup_initial_world
    rbt,              \* current RigidBodyTree
    rbt_new,          \* tree returned by do_cut, or None
    x,                \* current state vector
    t,                \* current simulation time
    mrbv,             \* iteration that built the current visualizer, or None
    sim_slices,       \* the replay buffer
    e,                \* the name bound by "except ... as e"
    iter,             \* number of the current loop iteration
    built,            \* per construct: iteration that built it, and what it was given
    sim_time,         \* time of the current simulator's context
    sim_state,        \* continuous state of the current simulator's context
    state_log,        \* sample times of the current state logger
    raised,           \* how the last StepTo ended
    cut_error,        \* how the last do_cut ended
    end_time,         \* end_time read after the loop
    anim_i,           \* index of the slice the animation pass is at
    hist,             \* per iteration: model, seed, end time, captured state, do_cut's results
    ik_call,          \* the kuka_ik planner call under way: function and arguments
    ik_result         \* what that call produced

vars == <<pc, duration, animate_forever, q0, rbt, rbt_new, x, t, mrbv,
          sim_slices, e, iter, built, sim_time, sim_state, state_log,
          raised, cut_error, end_time, anim_i, hist, ik_call, ik_result>>

\* ------------------------------------------------------------- the model
get_num_positions(r) == RobotDofs + BodyDofs * r

get_num_velocities(r) == RobotDofs + BodyDofs * r

\* x = np.zeros(nq + nv); x[0:q0.shape[0]] = q0
InitialX(r, q) ==
    [i \in 1..(get_num_positions(r) + get_num_velocities(r)) |->
        IF i <= Len(q) THEN q[i] ELSE 0]

\* setup_initial_world: a tree with n manipulands and a posture for it
setup_initial_world(n) ==
    [rbt |-> n, q0 |-> [i \in 1..get_num_positions(n) |-> 1]]

\* the state vectors the engine may leave in a context of length n
StateChoices(n) == { [i \in 1..n |-> (a + i) % 2] : a \in 0..1 }

\* do_cut: one more body; the old coordinates are kept and the new body
\* starts on the coordinates of the body that was cut
do_cut(r, xs, cut_body_index) ==
    LET nq == get_num_positions(r)
        q == SubSeq(xs, 1, nq)
        v == SubSeq(xs, nq + 1, Len(xs))
        lo == RobotDofs + (cut_body_index - 1) * BodyDofs + 1
        hi == RobotDofs + cut_body_index * BodyDofs
    IN  [rbt |-> r + 1,
         x |-> q \o SubSeq(q, lo, hi) \o v \o SubSeq(v, lo, hi)]

\* the ways do_cut can end
CutErrors == {"none", "StopIteration", "RuntimeError", "CutException", "Exception"}

\* the logger publishes when StepTo starts (the knot that repeats the one
\* published by Initialize in the first iteration) and at every multiple of
\* the publish period the context time reaches
RECURSIVE GridTimes(_, _)
GridTimes(from, to) ==
    IF from > to THEN <<>>
    ELSE IF from % SamplePeriod = 0 THEN <<from>> \o GridTimes(from + 1, to)
    ELSE GridTimes(from + 1, to)

SampleTimes(from, to) == <<from>> \o GridTimes(from + 1, to)

Constructs == {"mrbv", "rbplant", "allmaterials", "builder", "kuka_controller",
               "hand_controller", "knife_controller", "task_planner",
               "cutting_guard", "state_log", "kuka_control_log", "diagram",
               "simulator", "integrator"}

Ref(o, k) == [obj |-> o, seg |-> k]

\* the iteration whose cut handler produced the current tree (0: before the loop)
TreeSeg(k) == k - 1

\* a guard built on the plant of the previous iteration
GuardRefs_OldPlant(k) ==
    {Ref("rbt", TreeSeg(k)), Ref("rbplant", k - 1), Ref("world_builder", 0),
     Ref("builder", k)}

\* lines 141-151: what CuttingGuard is given in iteration k
GuardRefs(k) ==
    {Ref("rbt", TreeSeg(k)), Ref("rbplant", k), Ref("world_builder", 0),
     Ref("builder", k)}

\* what the constructor of construct c receives in iteration k
ConstructRefs(c, k, old_mrbv) ==
    CASE c = "mrbv" ->
            {Ref("rbt", TreeSeg(k))} \cup
            (IF old_mrbv = None THEN {} ELSE {Ref("mrbv", old_mrbv)})
      [] c = "rbplant" -> {Ref("rbt", TreeSeg(k)), Ref("allmaterials", k)}
      [] c = "allmaterials" -> {}
      [] c = "builder" -> {}
      [] c \in {"kuka_controller", "hand_controller", "knife_controller"} ->
            {Ref("rbt", TreeSeg(k)), Ref("rbplant", k), Ref("builder", k)}
      [] c = "task_planner" ->
            {Ref("rbt", TreeSeg(k)), Ref("q0", 0), Ref("world_builder", 0),
             Ref("builder", k)}
      [] c = "cutting_guard" -> GuardRefs(k)
      [] c = "state_log" -> {Ref("rbplant", k), Ref("builder", k)}
      [] c = "kuka_control_log" -> {Ref("kuka_controller", k), Ref("builder", k)}
      [] c = "diagram" -> {Ref("builder", k), Ref("mrbv", k)}
      [] c = "simulator" -> {Ref("diagram", k)}
      [] c = "integrator" -> {Ref("diagram", k), Ref("simulator", k)}

NotBuilt == [seg |-> 0, refs |-> {}]

\* the simulation script calls no planner itself
NoCall == [fn |-> "none"]

NoResult == [status |-> "none"]

Init ==
    /\ pc = "loop"
    /\ duration \in 1..MaxDuration
    /\ animate_forever \in BOOLEAN
    /\ \E n \in 1..MaxObjects :
          /\ rbt = setup_initial_world(n).rbt
          /\ q0 = setup_initial_world(n).q0
          /\ x = InitialX(setup_initial_world(n).rbt, setup_initial_world(n).q0)
    /\ rbt_new = None
    /\ t = 0
    /\ mrbv = None
    /\ sim_slices = <<>>
    /\ e = "unbound"
    /\ iter = 0
    /\ built = [c \in Constructs |-> NotBuilt]
    /\ sim_time = 0
    /\ sim_state = <<>>
    /\ state_log = <<>>
    /\ raised = "none"
    /\ cut_error = "none"
    /\ end_time = None
    /\ anim_i = 0
    /\ hist = <<>>
    /\ ik_call = NoCall
    /\ ik_result = NoResult

\* lines 82-84: mrbv is rebound to the visualizer of this iteration, which
\* is given the previous one
VisualizerBuilt ==
    /\ iter' = iter + 1
    /\ mrbv' = iter + 1
    /\ built' = [built EXCEPT !["mrbv"] =
                    [seg |-> iter + 1, refs |-> ConstructRefs("mrbv", iter + 1, mrbv)]]

\* lines 82-86: the visualizer of this iteration, given the previous one
MakeVisualizer ==
    /\ pc = "loop"
    /\ pc' = "diagram"
    /\ VisualizerBuilt
    /\ UNCHANGED <<ik_call, ik_result, duration, animate_forever, q0, rbt, rbt_new, x, t, sim_slices,
                   e, sim_time, sim_state, state_log, raised, cut_error,
                   end_time, anim_i, hist>>

\* lines 82-86: the constructor raises (mrbv keeps the old visualizer) or
\* mrbv.draw raises (mrbv is already rebound); nothing catches it and the
\* script ends
VisualizerRaises ==
    /\ pc = "loop"
    /\ pc' = "aborted"
    /\ \/ UNCHANGED <<iter, mrbv, built>>
       \/ VisualizerBuilt
    /\ UNCHANGED <<ik_call, ik_result, duration, animate_forever, q0, rbt, rbt_new, x, t, sim_slices,
                   e, sim_time, sim_state, state_log, raised, cut_error,
                   end_time, anim_i, hist>>

\* lines 89-174: the order in which the systems of the diagram are built
DiagramOrder == <<"rbplant", "allmaterials", "builder", "kuka_controller",
                  "hand_controller", "knife_controller", "task_planner",
                  "cutting_guard", "state_log", "kuka_control_log", "diagram">>

\* line 89 builds the plant from the tree alone; the material, created at
\* line 90, is handed to it at line 94
PlantRefs(k, handed) ==
    IF handed THEN ConstructRefs("rbplant", k, None) ELSE {Ref("rbt", TreeSeg(k))}

\* the first n constructs of DiagramOrder are built in this iteration;
\* handed tells whether line 94 has given the plant its material
DiagramBuilt(n, handed) ==
    /\ built' = [c \in Constructs |->
                    IF \E k \in 1..n : DiagramOrder[k] = c
                    THEN [seg |-> iter,
                          refs |-> IF c = "rbplant" THEN PlantRefs(iter, handed)
                                   ELSE ConstructRefs(c, iter, mrbv)]
                    ELSE built[c]]
    /\ state_log' = IF \E k \in 1..n : DiagramOrder[k] = "state_log"
                    THEN <<>> ELSE state_log

\* lines 89-174: plant, controllers, task planner, cutting guard, loggers, diagram
BuildDiagram ==
    /\ pc = "diagram"
    /\ pc' = "simulator"
    /\ DiagramBuilt(Len(DiagramOrder), TRUE)
    /\ UNCHANGED <<ik_call, ik_result, duration, animate_forever, q0, rbt, rbt_new, x, t, mrbv,
                   sim_slices, e, iter, sim_time, sim_state, raised, cut_error,
                   end_time, anim_i, hist>>

\* lines 89-174: one of the calls raises after the ones before it were
\* made; nothing catches it and the script ends.  A raise at line 90 leaves
\* the new plant without material and the material unbuilt (n = 1), one at
\* lines 91-94 leaves the material built but not handed over (n = 2), from
\* line 98 on the plant has it.
DiagramRaises ==
    /\ pc = "diagram"
    /\ pc' = "aborted"
    /\ \E n \in 0..(Len(DiagramOrder) - 1), handed \in BOOLEAN :
          /\ n <= 1 => ~handed
          /\ n >= 3 => handed
          /\ DiagramBuilt(n, handed)
    /\ UNCHANGED <<ik_call, ik_result, duration, animate_forever, q0, rbt, rbt_new, x, t, mrbv,
                   sim_slices, e, iter, sim_time, sim_state, raised, cut_error,
                   end_time, anim_i, hist>>

\* the copy of x into initial_state left out
InitialState_Zeros(xs) == [i \in 1..Len(xs) |-> 0]

\* lines 199-201: initial_state = np.zeros(x.shape); initial_state[0:n] = x.copy()
InitialState(xs) == [i \in 1..Len(xs) |-> xs[i]]

\* lines 177-202: simulator, Initialize (which publishes at context time 0),
\* integrator, then the context is seeded with x and t
MakeSimulator ==
    /\ pc = "simulator"
    /\ pc' = "step"
    /\ built' = [c \in Constructs |->
                    IF c \in {"simulator", "integrator"}
                    THEN [seg |-> iter, refs |-> ConstructRefs(c, iter, mrbv)]
                    ELSE built[c]]
    /\ state_log' = <<0>>
    /\ sim_state' = InitialState(x)
    /\ sim_time' = t
    /\ hist' = Append(hist, [model |-> rbt, t0 |-> t, x0 |-> InitialState(x),
                             t1 |-> None, xc |-> <<>>, mn |-> None, xn |-> <<>>])
    /\ UNCHANGED <<ik_call, ik_result, duration, animate_forever, q0, rbt, rbt_new, x, t, mrbv,
                   sim_slices, e, iter, raised, cut_error, end_time, anim_i>>

\* lines 177-202: a call raises after the calls before it were made: the
\* Simulator constructor (stage 0), Initialize before it publishes (1),
\* a call between Initialize and the integrator's constructor (2), a call
\* between that and SetFromVector (3), set_time (4); nothing catches it and
\* the script ends.  A new simulator's context is at time 0 in the default
\* state.
SimulatorRaises ==
    /\ pc = "simulator"
    /\ pc' = "aborted"
    /\ \E stage \in 0..4 :
          /\ built' = [c \in Constructs |->
                          IF \/ c = "simulator" /\ stage >= 1
                             \/ c = "integrator" /\ stage >= 3
                          THEN [seg |-> iter, refs |-> ConstructRefs(c, iter, mrbv)]
                          ELSE built[c]]
          /\ state_log' = IF stage >= 2 THEN <<0>> ELSE state_log
          /\ sim_time' = IF stage >= 1 THEN 0 ELSE sim_time
          /\ sim_state' = IF stage = 0 THEN sim_state
                          ELSE IF stage = 4 THEN InitialState(x)
                          ELSE [i \in 1..Len(x) |-> 0]
    /\ UNCHANGED <<ik_call, ik_result, duration, animate_forever, q0, rbt, rbt_new, x, t, mrbv,
                   sim_slices, e, iter, raised, cut_error, end_time, anim_i, hist>>

\* rbt_new not cleared before StepTo
ResetRbtNew_Stale(rn) == rn

\* line 205: rbt_new = None before every StepTo
ResetRbtNew(rn) == None

\* line 212: t = simulator.get_mutable_context().get_time()
CutTime(ctx_time, tt) == ctx_time

\* lines 214-216: x = ...CopyToVector()[0:x.shape[0]]
CaptureState(ctx_state, xs) == SubSeq(ctx_state, 1, Len(xs))

\* do_cut called where the sibling clauses would catch its errors
CutFailurePc_Caught(err) ==
    IF err \in {"StopIteration", "RuntimeError"} THEN "append" ELSE "aborted"

\* lines 206-224: an exception raised inside the CutException clause is not
\* offered to the StopIteration and RuntimeError clauses of the same try
CutFailurePc(err) == "aborted"

\* lines 220-226: the StopIteration and RuntimeError clauses only print, and
\* control falls through to the append
HandlerPc(exc) == "append"

\* StepTo given the duration again after a cut at time tt
StepTarget_Relative(tt, dur) == tt + dur

\* line 207: simulator.StepTo(args.duration), an absolute boundary time
StepTarget(tt, dur) == dur

\* the engine advances the context from sim_time to tau, leaving state s,
\* and the state logger publishes on the way
Advance(tau, s) ==
    /\ sim_time' = tau
    /\ sim_state' = s
    /\ state_log' = state_log \o SampleTimes(sim_time, tau)

\* lines 205-207: StepTo returns at args.duration
StepToReturns ==
    /\ pc = "step"
    /\ \E s \in StateChoices(Len(sim_state)) : Advance(StepTarget(t, duration), s)
    /\ rbt_new' = ResetRbtNew(rbt_new)
    /\ raised' = "returned"
    /\ cut_error' = "none"
    /\ hist' = [hist EXCEPT ![iter].t1 = StepTarget(t, duration)]
    /\ pc' = "append"
    /\ UNCHANGED <<ik_call, ik_result, duration, animate_forever, q0, rbt, x, t, mrbv, sim_slices,
                   e, iter, built, end_time, anim_i>>

\* lines 205-219: StepTo raises CutException at time tau; the handler takes
\* the time and the state from the context and calls do_cut
StepToCut ==
    /\ pc = "step"
    /\ Len(sim_slices) < MaxCuts
    /\ \E tau \in sim_time..StepTarget(t, duration), s \in StateChoices(Len(sim_state)),
          cut_body_index \in 1..rbt, err \in CutErrors :
          /\ Advance(tau, s)
          /\ t' = CutTime(tau, t)
          /\ e' = "CutException"
          /\ raised' = "CutException"
          /\ cut_error' = err
          /\ IF err = "none"
             THEN /\ rbt_new' = do_cut(rbt, CaptureState(s, x), cut_body_index).rbt
                  /\ x' = do_cut(rbt, CaptureState(s, x), cut_body_index).x
                  /\ hist' = [hist EXCEPT ![iter].t1 = tau,
                                          ![iter].xc = CaptureState(s, x),
                                          ![iter].mn = do_cut(rbt, CaptureState(s, x),
                                                              cut_body_index).rbt,
                                          ![iter].xn = do_cut(rbt, CaptureState(s, x),
                                                              cut_body_index).x]
                  /\ pc' = HandlerPc("CutException")
             ELSE /\ rbt_new' = ResetRbtNew(rbt_new)
                  /\ x' = CaptureState(s, x)
                  /\ hist' = [hist EXCEPT ![iter].t1 = tau,
                                          ![iter].xc = CaptureState(s, x)]
                  /\ pc' = CutFailurePc(err)
    /\ UNCHANGED <<ik_call, ik_result, duration, animate_forever, q0, rbt, mrbv, sim_slices, iter,
                   built, end_time, anim_i>>

\* lines 205-207, 220-221: StepTo raises StopIteration at time tau
StepToStopIteration ==
    /\ pc = "step"
    /\ \E tau \in sim_time..StepTarget(t, duration), s \in StateChoices(Len(sim_state)) :
          /\ Advance(tau, s)
          /\ hist' = [hist EXCEPT ![iter].t1 = tau]
    /\ rbt_new' = ResetRbtNew(rbt_new)
    /\ raised' = "StopIteration"
    /\ cut_error' = "none"
    /\ pc' = HandlerPc("StopIteration")
    /\ UNCHANGED <<ik_call, ik_result, duration, animate_forever, q0, rbt, x, t, mrbv, sim_slices,
                   e, iter, built, end_time, anim_i>>

\* lines 205-207, 222-224: StepTo raises RuntimeError at time tau
StepToRuntimeError ==
    /\ pc = "step"
    /\ \E tau \in sim_time..StepTarget(t, duration), s \in StateChoices(Len(sim_state)) :
          /\ Advance(tau, s)
          /\ hist' = [hist EXCEPT ![iter].t1 = tau]
    /\ rbt_new' = ResetRbtNew(rbt_new)
    /\ e' = "RuntimeError"
    /\ raised' = "RuntimeError"
    /\ cut_error' = "none"
    /\ pc' = HandlerPc("RuntimeError")
    /\ UNCHANGED <<ik_call, ik_result, duration, animate_forever, q0, rbt, x, t, mrbv, sim_slices,
                   iter, built, end_time, anim_i>>

\* lines 205-207: StepTo raises, at time tau, an exception that none of the
\* three clauses names; it leaves the try uncaught and the script ends
StepToOtherException ==
    /\ pc = "step"
    /\ \E tau \in sim_time..StepTarget(t, duration), s \in StateChoices(Len(sim_state)) :
          /\ Advance(tau, s)
          /\ hist' = [hist EXCEPT ![iter].t1 = tau]
    /\ rbt_new' = ResetRbtNew(rbt_new)
    /\ raised' = "Exception"
    /\ cut_error' = "none"
    /\ pc' = "aborted"
    /\ UNCHANGED <<ik_call, ik_result, duration, animate_forever, q0, rbt, x, t, mrbv, sim_slices,
                   e, iter, built, end_time, anim_i>>

\* the slice paired with the tree do_cut returned
SliceModel_AfterSwap(r, rn) == IF rn # None THEN rn ELSE r

\* line 226: the slice is paired with rbt, before the swap of line 235
SliceModel(r, rn) == r

\* the knot published by Initialize kept
DiscardFirstKnot_KeepAll(times) == times

\* lines 227-229: "Discard first knot, as it's repeated"
DiscardFirstKnot(times) == Tail(times)

\* the buffer overwritten instead of extended
AppendSlice_Overwrite(slices, s) == <<s>>

\* line 226: sim_slices.append(...)
AppendSlice(slices, s) == Append(slices, s)

\* lines 226-229
AppendSegment ==
    /\ pc = "append"
    /\ sim_slices' = AppendSlice(sim_slices,
                        [rbt |-> SliceModel(rbt, rbt_new),
                         traj |-> DiscardFirstKnot(state_log)])
    /\ pc' = "branch"
    /\ UNCHANGED <<ik_call, ik_result, duration, animate_forever, q0, rbt, rbt_new, x, t, mrbv, e,
                   iter, built, sim_time, sim_state, state_log, raised,
                   cut_error, end_time, anim_i, hist>>

\* lines 226-229: FirstOrderHold raises; nothing is appended, nothing
\* catches it and the script ends
AppendRaises ==
    /\ pc = "append"
    /\ pc' = "aborted"
    /\ UNCHANGED <<ik_call, ik_result, duration, animate_forever, q0, rbt, rbt_new, x, t, mrbv, e,
                   sim_slices, iter, built, sim_time, sim_state, state_log, raised,
                   cut_error, end_time, anim_i, hist>>

\* the swap left out
NextModel_Stale(r, rn) == r

\* lines 234-235: rbt = None; rbt = rbt_new
NextModel(r, rn) == rn

\* lines 230-235: a new tree was produced, go round again with it
SwapModel ==
    /\ pc = "branch"
    /\ rbt_new # None
    /\ rbt' = NextModel(rbt, rbt_new)
    /\ pc' = "loop"
    /\ UNCHANGED <<ik_call, ik_result, duration, animate_forever, q0, rbt_new, x, t, mrbv,
                   sim_slices, e, iter, built, sim_time, sim_state, state_log,
                   raised, cut_error, end_time, anim_i, hist>>

\* lines 236-237: break
Break ==
    /\ pc = "branch"
    /\ rbt_new = None
    /\ pc' = "after"
    /\ UNCHANGED <<ik_call, ik_result, duration, animate_forever, q0, rbt, rbt_new, x, t, mrbv,
                   sim_slices, e, iter, built, sim_time, sim_state, state_log,
                   raised, cut_error, end_time, anim_i, hist>>

\* lines 239-242
AfterLoop ==
    /\ pc = "after"
    /\ end_time' = sim_time
    /\ pc' = IF animate_forever THEN "animate" ELSE "exit"
    /\ UNCHANGED <<ik_call, ik_result, duration, animate_forever, q0, rbt, rbt_new, x, t, mrbv,
                   sim_slices, e, iter, built, sim_time, sim_state, state_log,
                   raised, cut_error, anim_i, hist>>

\* lines 244-247: a cleared visualizer on the first slice's tree
AnimateBegin ==
    /\ pc = "animate"
    /\ mrbv' = iter + 1
    /\ built' = [built EXCEPT !["mrbv"] =
                    [seg |-> iter + 1, refs |-> ConstructRefs("mrbv", 1, None)]]
    /\ anim_i' = 1
    /\ pc' = "animate_slice"
    /\ UNCHANGED <<ik_call, ik_result, duration, animate_forever, q0, rbt, rbt_new, x, t,
                   sim_slices, e, iter, sim_time, sim_state, state_log, raised,
                   cut_error, end_time, hist>>

\* lines 248-252: for rbt, traj in sim_slices: new visualizer, animate
AnimateSlice ==
    /\ pc = "animate_slice"
    /\ anim_i <= Len(sim_slices)
    /\ rbt' = sim_slices[anim_i].rbt
    /\ mrbv' = iter + 1
    /\ built' = [built EXCEPT !["mrbv"] =
                    [seg |-> iter + 1, refs |-> ConstructRefs("mrbv", anim_i, mrbv)]]
    /\ anim_i' = anim_i + 1
    /\ pc' = "animate_slice"
    /\ UNCHANGED <<ik_call, ik_result, duration, animate_forever, q0, rbt_new, x, t, sim_slices, e,
                   iter, sim_time, sim_state, state_log, raised, cut_error,
                   end_time, hist>>

\* line 244: while (1), the pass starts again
AnimateAgain ==
    /\ pc = "animate_slice"
    /\ anim_i > Len(sim_slices)
    /\ pc' = "animate"
    /\ UNCHANGED <<ik_call, ik_result, duration, animate_forever, q0, rbt, rbt_new, x, t, mrbv,
                   sim_slices, e, iter, built, sim_time, sim_state, state_log,
                   raised, cut_error, end_time, anim_i, hist>>

\* what can be raised during the animation: an Exception, which line 253
\* catches, or a BaseException that is not one (KeyboardInterrupt, SystemExit)
AnimationErrors == {"Exception", "BaseException"}

\* lines 244-254: a call of the animation raises.  The constructor of line
\* 245, time.sleep and animate raise in the state the model is in; the
\* constructor of lines 249-251 raises after the for statement has bound
\* rbt to the next slice's tree and before mrbv is rebound.  An Exception is
\* caught and bound to e (line 253) and the script goes on to line 256;
\* anything else ends the script.
AnimateException ==
    /\ pc \in {"animate", "animate_slice"}
    /\ \/ rbt' = rbt
       \/ /\ pc = "animate_slice"
          /\ anim_i <= Len(sim_slices)
          /\ rbt' = sim_slices[anim_i].rbt
    /\ \E err \in AnimationErrors :
          IF err = "Exception"
          THEN /\ e' = "Exception"
               /\ pc' = "exit"
          ELSE /\ e' = e
               /\ pc' = "aborted"
    /\ UNCHANGED <<ik_call, ik_result, duration, animate_forever, q0, rbt_new, x, t, mrbv,
                   sim_slices, iter, built, sim_time, sim_state, state_log,
                   raised, cut_error, end_time, anim_i, hist>>

\* lines 256-258
Exit ==
    /\ pc = "exit"
    /\ pc' = "done"
    /\ UNCHANGED <<ik_call, ik_result, duration, animate_forever, q0, rbt, rbt_new, x, t, mrbv,
                   sim_slices, e, iter, built, sim_time, sim_state, state_log,
                   raised, cut_error, end_time, anim_i, hist>>

LoopStep == MakeVisualizer \/ VisualizerRaises \/ BuildDiagram \/ DiagramRaises
            \/ MakeSimulator \/ SimulatorRaises
            \/ StepToReturns \/ StepToCut \/ StepToStopIteration
            \/ StepToRuntimeError \/ StepToOtherException
            \/ AppendSegment \/ AppendRaises \/ SwapModel \/ Break

Next == MakeVisualizer \/ VisualizerRaises \/ BuildDiagram \/ DiagramRaises
        \/ MakeSimulator \/ SimulatorRaises
        \/ StepToReturns \/ StepToCut \/ StepToStopIteration
        \/ StepToRuntimeError \/ StepToOtherException
        \/ AppendSegment \/ AppendRaises \/ SwapModel \/ Break
        \/ AfterLoop \/ AnimateBegin \/ AnimateSlice \/ AnimateAgain
        \/ AnimateException \/ Exit

Spec == Init /\ [][Next]_vars

\* the script runs on whenever it can: StepTo returns or raises, and every
\* other statement of the loop completes
FairSpec == Spec /\ WF_vars(LoopStep)

LoopPcs == {"loop", "diagram", "simulator", "step", "append", "branch"}

TypeOK ==
    /\ pc \in LoopPcs \cup {"aborted", "after", "animate", "animate_slice", "exit", "done"}
    /\ t \in 0..MaxDuration
    /\ Len(sim_slices) <= MaxCuts + 1

\* ------------------------------------------------------------ properties
LoopEnded == pc \in {"after", "animate", "animate_slice", "exit", "done"}

SpanStart(s) == s.traj[1]

SpanEnd(s) == s.traj[Len(s.traj)]

InitialModel == CHOOSE n \in 1..MaxObjects : setup_initial_world(n).q0 = q0

\* the iterations whose StepTo was interrupted by a cut that do_cut handled
Cuts == {i \in 1..Len(hist) : hist[i].mn # None}

\* C1 (as claimed): the time spans of the trajectories recorded in
\* sim_slices are contiguous and cover exactly [0, final time]: the first
\* starts at 0, each ends where the next starts, the last ends at the final
\* simulation time.
C1_RecordedSpansCoverExactly ==
    /\ \A i \in 1..Len(sim_slices) : Len(sim_slices[i].traj) > 0
    /\ Len(sim_slices) > 0 => SpanStart(sim_slices[1]) = 0
    /\ \A i \in 1..(Len(sim_slices) - 1) :
          SpanEnd(sim_slices[i]) = SpanStart(sim_slices[i + 1])
    /\ LoopEnded => SpanEnd(sim_slices[Len(sim_slices)]) = sim_time

\* C1 (amended): the simulated intervals of the iterations start at 0, each
\* ends where the next starts, and the last ends at the final simulation
\* time; the trajectory recorded for a segment is sampled inside the interval
\* of its iteration, so the recorded spans are in order and never overlap.
C1_SegmentsCover ==
    /\ Len(hist) > 0 => hist[1].t0 = 0
    /\ \A i \in 1..(Len(hist) - 1) : hist[i].t1 = hist[i + 1].t0
    /\ LoopEnded => hist[Len(hist)].t1 = sim_time
    /\ \A i \in 1..Len(sim_slices) :
          /\ Len(sim_slices[i].traj) > 0
          /\ hist[i].t0 <= hist[i].t1
          /\ \A j \in 1..Len(sim_slices[i].traj) :
                /\ hist[i].t0 <= sim_slices[i].traj[j]
                /\ sim_slices[i].traj[j] <= hist[i].t1
          /\ \A j \in 1..(Len(sim_slices[i].traj) - 1) :
                sim_slices[i].traj[j] < sim_slices[i].traj[j + 1]

\* C1 witness: a finished run of three segments, the second starting after
\* time 0, with a recorded span that stops short of its segment's end
C1_Witness ==
    /\ pc = "done"
    /\ Len(sim_slices) = 3
    /\ hist[2].t0 > 0
    /\ hist[3].t0 > hist[2].t0
    /\ SpanEnd(sim_slices[2]) < hist[2].t1

\* C2: when the loop has ended after k handled cuts, sim_slices holds k + 1
\* segments; the first is paired with the initial tree and segment i + 1
\* with the tree returned by the i-th do_cut, each being the tree that was
\* simulated in that iteration.
C2_SegmentPerModel ==
    LoopEnded =>
        /\ Len(sim_slices) = Cardinality(Cuts) + 1
        /\ Len(sim_slices) = Len(hist)
        /\ sim_slices[1].rbt = InitialModel
        /\ \A i \in 1..Len(sim_slices) : sim_slices[i].rbt = hist[i].model
        /\ \A i \in 1..(Len(sim_slices) - 1) :
              /\ i \in Cuts
              /\ sim_slices[i + 1].rbt = hist[i].mn
              /\ sim_slices[i + 1].rbt # sim_slices[i].rbt

\* C2 witness: a run with exactly one cut has ended with two segments
C2_Witness ==
    /\ pc = "done"
    /\ Cardinality(Cuts) = 1
    /\ Len(sim_slices) = 2
    /\ sim_slices[2].rbt = InitialModel + 1

\* C3: after a cut, the next simulation is seeded with exactly the vector
\* do_cut returned for the state captured at the interrupt, at exactly the
\* time of the interrupt; the positions captured at the interrupt are the
\* leading positions of the seed, and the seed times never decrease.
C3_SeedIsRemappedState ==
    \A i \in 2..Len(hist) :
        /\ hist[i].x0 = hist[i - 1].xn
        /\ \E b \in 1..hist[i - 1].model :
              hist[i].x0 = do_cut(hist[i - 1].model, hist[i - 1].xc, b).x
        /\ hist[i].t0 = hist[i - 1].t1
        /\ hist[i].t0 >= hist[i - 1].t0
        /\ SubSeq(hist[i].x0, 1, get_num_positions(hist[i - 1].model))
              = SubSeq(hist[i - 1].xc, 1, get_num_positions(hist[i - 1].model))
        /\ (i = Len(hist) /\ pc = "step") =>
              /\ sim_state = hist[i - 1].xn
              /\ sim_time = hist[i - 1].t1

\* C3 witness: a simulation seeded after a cut at a time later than 0 with a
\* state that is not all zero
C3_Witness ==
    /\ pc = "step"
    /\ Len(hist) = 2
    /\ sim_time > 0
    /\ \E j \in 1..Len(sim_state) : sim_state[j] # 0

Dim(r) == get_num_positions(r) + get_num_velocities(r)

\* C4: wherever a simulation is built and seeded, x has the length of the
\* current tree's positions plus velocities; after a cut the new x has the
\* length of the new tree, and the remapped x is never used with the old tree.
C4_StateMatchesModel ==
    /\ pc \in {"loop", "diagram", "simulator", "step"} => Len(x) = Dim(rbt)
    /\ pc = "step" => Len(sim_state) = Dim(rbt)
    /\ (pc \in {"append", "branch"} /\ rbt_new # None) =>
          /\ Len(x) = Dim(rbt_new)
          /\ rbt_new # rbt
    /\ \A i \in 1..Len(hist) : Len(hist[i].x0) = Dim(hist[i].model)

\* C4 witness: a simulation seeded after a cut, on a longer state vector
C4_Witness ==
    /\ pc = "step"
    /\ Len(hist) = 2
    /\ Len(sim_state) > Len(hist[1].x0)
    /\ rbt = hist[1].mn

\* C5: if do_cut fails while a cut is handled, whatever it raises, the run
\* aborts: no segment is appended, no further iteration starts, and nothing
\* happens afterwards.
C5_CutFailureAborts ==
    [][ /\ (pc = "step" /\ cut_error' # "none") =>
              /\ pc' = "aborted"
              /\ sim_slices' = sim_slices
              /\ iter' = iter
        /\ pc = "aborted" => UNCHANGED vars ]_vars

\* C5 witness: the second cut's do_cut raised RuntimeError and the run aborted
C5_Witness ==
    /\ pc = "aborted"
    /\ cut_error = "RuntimeError"
    /\ Len(sim_slices) = 1
    /\ iter = 2

\* the script ended on an exception raised while the loop was running
LoopAborted == pc = "aborted" /\ end_time = None

\* C6: once StepTo has ended with StopIteration or RuntimeError no further
\* simulation is built or run, and once the iteration has left the append
\* sim_slices holds, in order, every segment appended before plus the
\* segment of the span simulated before the failure: one segment per
\* iteration, each paired with the tree of its iteration and lying within
\* the span that iteration simulated.
C6_EarlyStopKeepsHistory ==
    raised \in {"StopIteration", "RuntimeError"} =>
        /\ pc \notin {"loop", "diagram", "simulator", "step"}
        /\ iter = Len(hist)
        /\ pc = "append" => Len(sim_slices) = iter - 1
        /\ pc # "append" => Len(sim_slices) = iter
        /\ \A i \in 1..Len(sim_slices) :
              /\ sim_slices[i].rbt = hist[i].model
              /\ hist[i].t0 <= SpanStart(sim_slices[i])
              /\ SpanEnd(sim_slices[i]) <= hist[i].t1

\* what the variables left after the loop tell about how StepTo ended: e is
\* bound by the RuntimeError clause, and the context time is all that is
\* left to tell StopIteration from a return
RecordedOutcome ==
    IF e = "RuntimeError" THEN "RuntimeError"
    ELSE IF sim_time < duration THEN "StopIteration"
    ELSE "returned"

\* C7: after the loop the state of the script tells a normal completion, an
\* early-stop signal and a numerical divergence apart.
C7_OutcomeRecorded == pc = "after" => RecordedOutcome = raised

\* C8 (as claimed): every construct a segment runs with was built in that
\* iteration and was given, besides the tree, only objects of that iteration
\* or objects built before the loop.
C8_NothingElseCarried ==
    pc = "step" =>
        \A c \in Constructs :
            /\ built[c].seg = iter
            /\ \A r \in built[c].refs : r.obj = "rbt" \/ r.seg \in {0, iter}

\* C8 (amended): every construct a segment runs with was built in that
\* iteration; the task planner and the cutting guard are given the
\* world_builder (and q0) made before the loop, the visualizer is given the
\* visualizer of the previous iteration, and apart from these and the tree
\* every construct is given objects of its own iteration only.
C8_OnlyVisualizerCarried ==
    pc = "step" =>
        /\ \A c \in Constructs :
              /\ built[c].seg = iter
              /\ \A r \in built[c].refs :
                    \/ r.obj = "rbt"
                    \/ r.obj \in {"q0", "world_builder"} /\ r.seg = 0
                    \/ r.seg = iter
                    \/ c = "mrbv" /\ iter > 1 /\ r = Ref("mrbv", iter - 1)
        /\ iter > 1 => Ref("mrbv", iter - 1) \in built["mrbv"].refs

\* C8 witness: the third segment is about to run
C8_Witness ==
    /\ pc = "step"
    /\ iter = 3
    /\ Ref("mrbv", 2) \in built["mrbv"].refs

\* C9: sim_slices only grows at its end: no step removes, reorders or
\* changes a segment, an iteration that reaches the append adds exactly one
\* (none when building the segment raises), and no other step, the
\* animation pass included, changes the buffer.
C9_AppendOnly ==
    [][ /\ Len(sim_slices') >= Len(sim_slices)
        /\ SubSeq(sim_slices', 1, Len(sim_slices)) = sim_slices
        /\ (pc = "append" /\ pc' # "aborted") =>
              Len(sim_slices') = Len(sim_slices) + 1
        /\ (pc # "append" \/ pc' = "aborted") => sim_slices' = sim_slices ]_vars

\* C9 witness: the animation pass has reached the third of three segments
C9_Witness ==
    /\ pc = "animate_slice"
    /\ anim_i = 3
    /\ Len(sim_slices) = 3

\* how an iteration ended, from what StepTo and do_cut did; an exception
\* that nothing catches is fatal
Outcome ==
    CASE LoopAborted -> "fatal"
      [] raised = "Exception" -> "fatal"
      [] raised = "returned" -> "completed"
      [] raised \in {"StopIteration", "RuntimeError"} -> "early-stop"
      [] raised = "CutException" /\ cut_error = "none" -> "continue-with-new-topology"
      [] raised = "CutException" /\ cut_error # "none" -> "fatal"
      [] OTHER -> "none"

\* C10: every iteration ends in one of continue-with-new-topology,
\* completed, early-stop, fatal; the loop goes round again exactly when a
\* cut was handled, aborts exactly when do_cut failed or an exception was
\* left uncaught, and otherwise breaks; and the loop eventually ends.
C10_LoopOutcomes ==
    /\ [][ /\ pc = "step" =>
                 /\ pc' \in {"append", "aborted"}
                 /\ Outcome' # "none"
                 /\ pc' = "aborted" <=> (cut_error' # "none" \/ raised' = "Exception")
                 /\ pc' = "aborted" <=> Outcome' = "fatal"
           /\ pc = "branch" =>
                 /\ pc' = "loop" <=> Outcome = "continue-with-new-topology"
                 /\ pc' = "after" <=> Outcome \in {"completed", "early-stop"}
           /\ (pc \in LoopPcs /\ pc' \notin LoopPcs) =>
                 Outcome' \in {"completed", "early-stop", "fatal"}
           /\ pc' = "loop" => pc = "branch" ]_vars
    /\ <>(pc \notin LoopPcs)

\* C10 witness: the loop has ended after three iterations, the last one
\* completed
C10_Witness ==
    /\ pc = "after"
    /\ iter = 3
    /\ Outcome = "completed"

\* the time simulated by the iterations whose StepTo has ended
RECURSIVE SimulatedTime(_)
SimulatedTime(h) ==
    IF h = <<>> THEN 0
    ELSE (IF h[Len(h)].t1 = None THEN 0 ELSE h[Len(h)].t1 - h[Len(h)].t0)
         + SimulatedTime(SubSeq(h, 1, Len(h) - 1))

\* C18: every StepTo, also after a cut at time t, runs towards the same
\* absolute time args.duration: no context time and no segment end exceeds
\* the duration, the time simulated over all segments never exceeds it, and
\* when StepTo returns the simulation time is the duration however many
\* cuts there were.
C18_AbsoluteEndTime ==
    /\ sim_time <= duration
    /\ \A i \in 1..Len(hist) : hist[i].t1 # None => hist[i].t1 <= duration
    /\ SimulatedTime(hist) <= duration
    /\ raised = "returned" =>
          /\ sim_time = duration
          /\ SimulatedTime(hist) = duration
    /\ (LoopEnded /\ pc # "after" /\ raised = "returned") => end_time = duration

\* C18 witness: a run cut twice, the second time after time 0, whose third
\* StepTo returned
C18_Witness ==
    /\ pc = "done"
    /\ raised = "returned"
    /\ Len(hist) = 3
    /\ hist[3].t0 > 0
    /\ hist[3].t0 < duration

(***************************************************************************)
(* The planners of kuka_ik.py.  A call is drawn in the initial state and   *)
(* one action per planner applies it.  Joint values and tolerances are     *)
(* counted in units of 0.01; a vector of times is kept as numerators n     *)
(* over a common denominator d, so that linspace and the interpolation     *)
(* factors are exact.  Indices are the 0-based indices of the code.        *)
(***************************************************************************)

\* ---------------------------------------------------------------- bounds
NqIk == 3             \* positions of the tree given to a planner
MaxKnots == 3         \* n_knots ranges over 1..MaxKnots
MaxIkDuration == 2    \* duration and grasp_time range over 1..MaxIkDuration

\* ------------------------------------------------------ program constants
Tol == 1              \* the 0.01 of the posture and position bounds
EulerTol == 5         \* the 0.05 of the orientation bounds of plan_ee_trajectory

QValues == {-4, 1}

QfValues == {-3, 2}

PoseValues == {<<0, 0>>, <<6, 10>>}

SolverInfos == {1, 13}

StartTimes == {0, 1}

\* joint_limit_min and joint_limit_max of the tree
LimitChoices ==
    {[min |-> [j \in 1..NqIk |-> -2], max |-> [j \in 1..NqIk |-> 2]],
     [min |-> [j \in 1..NqIk |-> -9], max |-> [j \in 1..NqIk |-> 9]]}

sim_vars == <<pc, duration, animate_forever, q0, rbt, rbt_new, x, t, mrbv,
              sim_slices, e, iter, built, sim_time, sim_state, state_log,
              raised, cut_error, end_time, anim_i, hist>>

RECURSIVE SortedSeq(_)
SortedSeq(S) ==
    IF S = {} THEN <<>>
    ELSE LET m == CHOOSE a \in S : \A b \in S : a <= b
         IN  <<m>> \o SortedSeq(S \ {m})

\* the lists of distinct position indices a list of joint names can select
FreeChoices(nq) ==
    {f \in UNION {[1..k -> 0..(nq - 1)] : k \in 0..nq} :
        \A a, b \in 1..Len(f) : a # b => f[a] # f[b]}

\* extract_position_indices: the selected indices and the remaining ones
extract_position_indices(nq, free) ==
    [free |-> free,
     constrained |-> SortedSeq((0..(nq - 1)) \ {free[k] : k \in 1..Len(free)})]

\* v[inds] for a list of indices
Take(v, inds) == [k \in 1..Len(inds) |-> v[inds[k] + 1]]

\* whether v[inds] raises IndexError
InBounds(v, inds) == \A k \in 1..Len(inds) : inds[k] < Len(v)

np_clip(v, lo, hi) ==
    [j \in 1..Len(v) |->
        IF v[j] < lo[j] THEN lo[j] ELSE IF v[j] > hi[j] THEN hi[j] ELSE v[j]]

\* np.linspace(start, stop, num): num samples, the last one stop
linspace(start, stop, num) ==
    LET den == IF num > 1 THEN num - 1 ELSE 1
    IN  [d |-> den,
         n |-> [i \in 1..num |-> start * den + (i - 1) * (stop - start)]]

Shifted(v, by) == [j \in 1..Len(v) |-> v[j] + by]

\* ik.PostureConstraint(rbt, tspan) with setJointLimits(inds, lb, ub)
PostureConstraint(inds, lb, ub, tspan) ==
    [kind |-> "posture", inds |-> inds, lb |-> lb, ub |-> ub, tspan |-> tspan]

\* the shift by start_time left out
ShiftTimes_None(ts, start_time) == ts

\* line 156: ts += start_time
ShiftTimes(ts, start_time) ==
    [d |-> ts.d, n |-> Shifted(ts.n, start_time * ts.d)]

\* the start posture used as it was passed
ClipQ0_None(q, lim) == q

\* line 104: q0 = np.clip(q0, rbt.joint_limit_min, rbt.joint_limit_max)
ClipQ0(q, lim) == np_clip(q, lim.min, lim.max)

\* a status that is not the nominal one reported as nominal
ReturnedInfo_Nominal(info) == 1

\* lines 64, 161, 255: return ..., results.info[0]
ReturnedInfo(info) == info

\* lines 141-142: qf_full = q0*0.; qf_full[free_config_inds] = qf
QfFull(q, free, qf) ==
    [j \in 1..Len(q) |->
        IF \E k \in 1..Len(free) : free[k] = j - 1
        THEN qf[CHOOSE k \in 1..Len(free) : free[k] = j - 1]
        ELSE q[j] * 0]

\* lines 67-161; info is the status the solver reports
plan_trajectory_to_posture(c, info) ==
    LET ts == linspace(0, c.duration, c.n_knots)
        inds == extract_position_indices(Len(c.q0), c.free)
        free == inds.free
        held == inds.constrained
        q == ClipQ0(c.q0, c.lim)
        qf == np_clip(c.qf, Take(c.lim.min, free), Take(c.lim.max, free))
        held_c == PostureConstraint(held, Shifted(Take(q, held), -Tol),
                                    Shifted(Take(q, held), Tol), <<0, c.duration>>)
        start_c == PostureConstraint(free, Shifted(Take(q, free), -Tol),
                                     Shifted(Take(q, free), Tol), <<0, 0>>)
        qf_full == QfFull(q, free, qf)
    IN  IF ~InBounds(qf, free)
        THEN [status |-> "raised", error |-> "IndexError", solver_calls |-> 0]
        ELSE [status |-> "returned",
              ts |-> ShiftTimes(ts, c.start_time),
              constraints |->
                  <<held_c, start_c,
                    PostureConstraint(free, Shifted(Take(qf, free), -Tol),
                                      Shifted(Take(qf, free), Tol),
                                      <<c.duration, c.duration>>)>>,
              \* q_seed[:, i] = q0 * (1 - t/duration) + qf_full * (t/duration),
              \* kept as the numerator over seed_d
              seed_d |-> ts.d * c.duration,
              q_seed |-> [i \in 1..c.n_knots |->
                            [j \in 1..Len(q) |->
                                q[j] * (ts.d * c.duration - ts.n[i])
                                + qf_full[j] * ts.n[i]]],
              q_nom |-> [i \in 1..c.n_knots |-> qf_full],
              info |-> ReturnedInfo(info),
              solver_info |-> info,
              solver_calls |-> 1]

\* np.argmax(ts >= reach_time): the first index that holds, 0 when none does
argmax_ge(ts, reach_time) ==
    LET hits == {i \in 0..(Len(ts.n) - 1) : ts.n[i + 1] >= reach_time * ts.d}
    IN  IF hits = {} THEN 0 ELSE CHOOSE i \in hits : \A k \in hits : i <= k

\* line 185: reach_start_index = np.argmax(ts >= reach_time) - 1
ReachStartIndex(ts, reach_time) == argmax_ge(ts, reach_time) - 1

\* the element a[i] refers to: a negative index counts from the end
PyIndex(i, len) == IF i < 0 THEN len + i ELSE i

\* lines 224-225 for one component of the pose: target_pose as a numerator
\* over n_knots - reach_start_index
TargetPose(i, r, n_knots, reach, grasp) ==
    [n |-> ((n_knots - r) - (i - r)) * reach + (i - r) * grasp,
     d |-> n_knots - r]

\* WorldPositionConstraint / WorldEulerConstraint at one knot; the bounds
\* are numerators over target.d, the time a numerator over ts.d
EeConstraint(kind, i, ts, target, tol) ==
    [kind |-> kind,
     index |-> i,
     knot |-> PyIndex(i, Len(ts.n)),
     tspan |-> <<ts.n[PyIndex(i, Len(ts.n)) + 1], ts.n[PyIndex(i, Len(ts.n)) + 1]>>,
     target |-> target,
     lb |-> target.n - tol * target.d,
     ub |-> target.n + tol * target.d]

\* lines 222-237: for i in range(reach_start_index, n_knots)
EeConstraints(c, ts, r) ==
    [m \in 1..(2 * (c.n_knots - r)) |->
        LET i == r + ((m + 1) \div 2) - 1
        IN  IF m % 2 = 1
            THEN EeConstraint("position", i, ts,
                     TargetPose(i, r, c.n_knots, c.target_reach_pose[1],
                                c.target_grasp_pose[1]), Tol)
            ELSE EeConstraint("euler", i, ts,
                     TargetPose(i, r, c.n_knots, c.target_reach_pose[2],
                                c.target_grasp_pose[2]), EulerTol)]

\* lines 164-255
plan_ee_trajectory(c, info) ==
    LET ts == linspace(0, c.grasp_time, c.n_knots)
        r == ReachStartIndex(ts, c.reach_time)
        inds == extract_position_indices(Len(c.q0), c.free)
        held_c == PostureConstraint(inds.constrained,
                      Shifted(Take(c.q0, inds.constrained), -Tol),
                      Shifted(Take(c.q0, inds.constrained), Tol),
                      <<0, c.grasp_time>>)
        start_c == PostureConstraint(inds.free,
                      Shifted(Take(c.q0, inds.free), -Tol),
                      Shifted(Take(c.q0, inds.free), Tol), <<0, 0>>)
    IN  [status |-> "returned",
         ts |-> ts,
         reach_start_index |-> r,
         constraints |-> <<held_c, start_c>> \o EeConstraints(c, ts, r),
         q_seed |-> [i \in 1..c.n_knots |-> c.q0],
         q_nom |-> [i \in 1..c.n_knots |-> c.q0],
         info |-> ReturnedInfo(info),
         solver_info |-> info,
         solver_calls |-> 1]

\* lines 49-58: WorldPositionConstraint / WorldEulerConstraint given no tspan
WorldConstraint(kind, lb, ub) ==
    [kind |-> kind, lb |-> lb, ub |-> ub, tspan |-> <<>>]

\* lines 13-64; sol is what the solver reports
plan_ee_configuration(c, sol) ==
    LET inds == extract_position_indices(Len(c.q0), c.free)
    IN  [status |-> "returned",
         constraints |->
            <<[kind |-> "min_distance", min_distance |-> Tol],
              PostureConstraint(inds.constrained,
                  Shifted(Take(c.q0, inds.constrained), -Tol),
                  Shifted(Take(c.q0, inds.constrained), Tol), <<>>),
              WorldConstraint("position", c.target_ee_pose[1] - Tol,
                              c.target_ee_pose[1] + Tol),
              WorldConstraint("euler", c.target_ee_pose[2] - Tol,
                              c.target_ee_pose[2] + Tol)>>,
         q_seed |-> c.q0,
         q_nom |-> c.q0,
         q_sol |-> sol.q_sol,
         info |-> ReturnedInfo(sol.info),
         solver_info |-> sol.info,
         solver_calls |-> 1]

\* what InverseKin can report for a tree of nq positions
SolverResults(nq) ==
    {[q_sol |-> [j \in 1..nq |-> v], info |-> i] : v \in QValues, i \in SolverInfos}

\* the q0 a caller of the end-effector planners passes
EeQ0Choices(nq) == {[j \in 1..nq |-> v] : v \in QValues}

\* a call of plan_ee_trajectory
EeTrajectoryCall ==
    \E q \in EeQ0Choices(NqIk), f \in FreeChoices(NqIk),
       rp \in PoseValues, gp \in PoseValues, k \in 1..MaxKnots,
       rt \in (-1)..(MaxIkDuration + 1), gt \in 1..MaxIkDuration :
        ik_call = [fn |-> "plan_ee_trajectory", q0 |-> q, free |-> f,
                   target_reach_pose |-> rp, target_grasp_pose |-> gp,
                   n_knots |-> k, reach_time |-> rt, grasp_time |-> gt]

\* a call of plan_ee_configuration
EeConfigurationCall ==
    \E q \in EeQ0Choices(NqIk), qs \in EeQ0Choices(NqIk),
       f \in FreeChoices(NqIk), p \in PoseValues :
        ik_call = [fn |-> "plan_ee_configuration", q0 |-> q, qseed |-> qs,
                   free |-> f, target_ee_pose |-> p]

\* a call of plan_trajectory_to_posture
PostureCall ==
    \E f \in FreeChoices(NqIk) :
        \E q \in [1..NqIk -> QValues], g \in [1..Len(f) -> QfValues],
           l \in LimitChoices, k \in 1..MaxKnots, d \in 1..MaxIkDuration,
           st \in StartTimes :
            ik_call = [fn |-> "plan_trajectory_to_posture", q0 |-> q,
                       free |-> f, qf |-> g, lim |-> l, n_knots |-> k,
                       duration |-> d, start_time |-> st]

Pending == [status |-> "pending"]

IkIdle ==
    /\ pc = "idle"
    /\ duration = 1
    /\ animate_forever = FALSE
    /\ q0 = <<>>
    /\ rbt = None
    /\ rbt_new = None
    /\ x = <<>>
    /\ t = 0
    /\ mrbv = None
    /\ sim_slices = <<>>
    /\ e = "unbound"
    /\ iter = 0
    /\ built = [c \in Constructs |-> NotBuilt]
    /\ sim_time = 0
    /\ sim_state = <<>>
    /\ state_log = <<>>
    /\ raised = "none"
    /\ cut_error = "none"
    /\ end_time = None
    /\ anim_i = 0
    /\ hist = <<>>

PlanTrajectoryToPosture ==
    /\ ik_call.fn = "plan_trajectory_to_posture"
    /\ ik_result = Pending
    /\ \E info \in SolverInfos :
          ik_result' = plan_trajectory_to_posture(ik_call, info)
    /\ UNCHANGED <<ik_call, sim_vars>>

PlanEeTrajectory ==
    /\ ik_call.fn = "plan_ee_trajectory"
    /\ ik_result = Pending
    /\ \E info \in SolverInfos :
          ik_result' = plan_ee_trajectory(ik_call, info)
    /\ UNCHANGED <<ik_call, sim_vars>>

PlanEeConfiguration ==
    /\ ik_call.fn = "plan_ee_configuration"
    /\ ik_result = Pending
    /\ \E sol \in SolverResults(Len(ik_call.q0)) :
          ik_result' = plan_ee_configuration(ik_call, sol)
    /\ UNCHANGED <<ik_call, sim_vars>>

IkInit ==
    /\ IkIdle
    /\ \/ PostureCall
       \/ EeTrajectoryCall
       \/ EeConfigurationCall
    /\ ik_result = Pending

IkNext ==
    \/ PlanTrajectoryToPosture
    \/ PlanEeTrajectory
    \/ PlanEeConfiguration

IkSpec == IkInit /\ [][IkNext]_vars

(***************************************************************************)
(* Properties of the planners, stated over IkSpec.                         *)
(***************************************************************************)

PostureReturned ==
    /\ ik_call.fn = "plan_trajectory_to_posture"
    /\ ik_result.status = "returned"

\* the knot times run from start_time to start_time + duration
KnotsSpan ==
    /\ Len(ik_result.ts.n) = ik_call.n_knots
    /\ ik_result.ts.n[1] = ik_call.start_time * ik_result.ts.d
    /\ ik_result.ts.n[ik_call.n_knots]
          = (ik_call.start_time + ik_call.duration) * ik_result.ts.d

\* consecutive knot times differ by duration / (n_knots - 1)
KnotsEven ==
    \A i \in 1..(ik_call.n_knots - 1) :
        ik_result.ts.n[i + 1] - ik_result.ts.n[i] = ik_call.duration

\* C11 as stated: for every knot count K, the knots of the trajectory that
\* plan_trajectory_to_posture returns are evenly spaced over [0, D] and
\* shifted by S, the first at S and the last at S + D.
C11_DomainForEveryKnotCount ==
    PostureReturned => (KnotsSpan /\ KnotsEven)

\* C11: for every knot count K >= 2, the knots of the trajectory that
\* plan_trajectory_to_posture returns are evenly spaced over [0, D] and
\* shifted by S, the first at S and the last at S + D; with K = 1 the only
\* knot is at S.
C11_DomainShifted ==
    PostureReturned =>
        /\ ik_call.n_knots >= 2 => (KnotsSpan /\ KnotsEven)
        /\ ik_call.n_knots = 1 =>
              ik_result.ts.n = <<ik_call.start_time * ik_result.ts.d>>

C11_Witness ==
    /\ PostureReturned
    /\ ik_call.n_knots = 3
    /\ ik_call.start_time > 0
    /\ ik_call.duration > 1

\* the position indices of the joints that are not controlled
HeldJoints ==
    {j \in 0..(Len(ik_call.q0) - 1) :
        \A k \in 1..Len(ik_call.free) : ik_call.free[k] # j}

\* the caller's q0 brought inside the joint limits of the tree
LimitedQ0(j) ==
    IF ik_call.q0[j + 1] < ik_call.lim.min[j + 1] THEN ik_call.lim.min[j + 1]
    ELSE IF ik_call.q0[j + 1] > ik_call.lim.max[j + 1] THEN ik_call.lim.max[j + 1]
    ELSE ik_call.q0[j + 1]

\* the first constraint bounds exactly the held joints, over [0, duration]
HeldConstraintShape ==
    LET c == ik_result.constraints[1]
    IN  /\ c.kind = "posture"
        /\ c.tspan = <<0, ik_call.duration>>
        /\ {c.inds[k] : k \in 1..Len(c.inds)} = HeldJoints
        /\ Len(c.inds) = Cardinality(HeldJoints)
        /\ Len(c.lb) = Len(c.inds)
        /\ Len(c.ub) = Len(c.inds)

\* C12 as stated: every held joint j is bounded over the whole horizon
\* [0, D] by [q0_j - 0.01, q0_j + 0.01], with q0_j the value of the q0 the
\* caller passed.
C12_HeldAroundCallerQ0 ==
    PostureReturned =>
        /\ HeldConstraintShape
        /\ \A k \in 1..Len(ik_result.constraints[1].inds) :
              LET j == ik_result.constraints[1].inds[k]
              IN  /\ ik_result.constraints[1].lb[k] = ik_call.q0[j + 1] - Tol
                  /\ ik_result.constraints[1].ub[k] = ik_call.q0[j + 1] + Tol

\* C12: every held joint j is bounded over the whole horizon [0, D] by
\* [c_j - 0.01, c_j + 0.01], where c_j is the caller's q0_j clipped to the
\* joint limits of the tree (equal to q0_j when q0_j is within the limits).
C12_HeldAroundClippedQ0 ==
    PostureReturned =>
        /\ HeldConstraintShape
        /\ \A k \in 1..Len(ik_result.constraints[1].inds) :
              LET j == ik_result.constraints[1].inds[k]
              IN  /\ ik_result.constraints[1].lb[k] = LimitedQ0(j) - Tol
                  /\ ik_result.constraints[1].ub[k] = LimitedQ0(j) + Tol
                  /\ (LimitedQ0(j) = ik_call.q0[j + 1]) =>
                        ik_result.constraints[1].lb[k] = ik_call.q0[j + 1] - Tol

C12_Witness ==
    /\ PostureReturned
    /\ \E j \in HeldJoints : LimitedQ0(j) # ik_call.q0[j + 1]
    /\ \E j \in HeldJoints : LimitedQ0(j) = ik_call.q0[j + 1]

\* the call's q0 and qf are within the joint limits, so clipping changes nothing
WithinLimits ==
    /\ \A j \in 0..(Len(ik_call.q0) - 1) : LimitedQ0(j) = ik_call.q0[j + 1]
    /\ \A k \in 1..Len(ik_call.free) :
          /\ ik_call.qf[k] >= ik_call.lim.min[ik_call.free[k] + 1]
          /\ ik_call.qf[k] <= ik_call.lim.max[ik_call.free[k] + 1]

\* C13: the constraint set handed to the solver consists of exactly the
\* held-joint bound over [0, D], the controlled-joint bound around q0 at
\* time 0 and the controlled-joint bound around the target at time D, and for
\* the k-th controlled joint the end bound is the caller's k-th target value
\* plus or minus 0.01, whatever position index that joint has.  Stated for
\* calls whose q0 and qf lie within the joint limits.
C13_EndBoundIsCallersTarget ==
    (ik_call.fn = "plan_trajectory_to_posture" /\ ik_result # Pending
     /\ WithinLimits)
    => /\ ik_result.status = "returned"
       /\ Len(ik_result.constraints) = 3
       /\ HeldConstraintShape
       /\ ik_result.constraints[2].inds = ik_call.free
       /\ ik_result.constraints[2].tspan = <<0, 0>>
       /\ ik_result.constraints[3].inds = ik_call.free
       /\ ik_result.constraints[3].tspan = <<ik_call.duration, ik_call.duration>>
       /\ \A k \in 1..Len(ik_call.free) :
             /\ ik_result.constraints[2].lb[k] = ik_call.q0[ik_call.free[k] + 1] - Tol
             /\ ik_result.constraints[2].ub[k] = ik_call.q0[ik_call.free[k] + 1] + Tol
             /\ ik_result.constraints[3].lb[k] = ik_call.qf[k] - Tol
             /\ ik_result.constraints[3].ub[k] = ik_call.qf[k] + Tol

\* the held joints and the target's held entries, as C14 states them
HeldFrozenInSeed ==
    \A i \in 1..ik_call.n_knots : \A j \in HeldJoints :
        ik_result.q_seed[i][j + 1] = LimitedQ0(j) * ik_result.seed_d

\* C14: the seed handed to the solver is, at every knot, the linear
\* interpolation between q0 and the full-length target in which every held
\* joint keeps its q0 value, so the seed's held-joint values equal q0's
\* held-joint values at every knot (q0 taken after clipping to the limits).
C14_SeedHoldsHeldJoints ==
    PostureReturned => HeldFrozenInSeed

EeReturned ==
    /\ ik_call.fn = "plan_ee_trajectory"
    /\ ik_result.status = "returned"

\* the end-effector constraints of a plan_ee_trajectory call
EePart == SubSeq(ik_result.constraints, 3, Len(ik_result.constraints))

\* the component of a pose that a constraint of the given kind bounds
Component(pose, kind) == IF kind = "position" THEN pose[1] ELSE pose[2]

Targets(c, pose) == c.target.n = c.target.d * Component(pose, c.kind)

\* the knots that carry an end-effector constraint
ConstrainedKnots == {EePart[m].knot : m \in 1..Len(EePart)}

\* C15: when reach_time equals grasp_time, every knot from the reach knot
\* onward is constrained to the grasp pose (interpolation factor 1).  Stated
\* for n_knots >= 2.
C15_EqualTimesTargetGrasp ==
    (EeReturned /\ ik_call.n_knots >= 2
     /\ ik_call.reach_time = ik_call.grasp_time) =>
        /\ Len(EePart) > 0
        /\ \A m \in 1..Len(EePart) : Targets(EePart[m], ik_call.target_grasp_pose)

\* knot k (0-based) is at least as close to reach_time as every other knot
Nearest(k) ==
    LET dist(i) ==
            IF ik_result.ts.n[i + 1] >= ik_call.reach_time * ik_result.ts.d
            THEN ik_result.ts.n[i + 1] - ik_call.reach_time * ik_result.ts.d
            ELSE ik_call.reach_time * ik_result.ts.d - ik_result.ts.n[i + 1]
    IN  \A i \in 0..(ik_call.n_knots - 1) : dist(k) <= dist(i)

\* C16: the knots that receive an end-effector constraint are exactly the
\* knot nearest reach_time through the last knot, and the constraint at that
\* nearest knot targets the reach pose.  Stated for n_knots >= 2 and
\* 0 < reach_time <= grasp_time.
C16_RampStartsAtNearestKnot ==
    (EeReturned /\ ik_call.n_knots >= 2 /\ ik_call.reach_time > 0
     /\ ik_call.reach_time <= ik_call.grasp_time) =>
        \E k \in 0..(ik_call.n_knots - 1) :
            /\ Nearest(k)
            /\ ConstrainedKnots = k..(ik_call.n_knots - 1)
            /\ \A m \in 1..Len(EePart) :
                  EePart[m].knot = k => Targets(EePart[m], ik_call.target_reach_pose)

\* the value a planner returns as status is the one the solver reported
StatusUnchanged ==
    /\ ik_result.info = ik_result.solver_info
    /\ ik_result.solver_calls = 1

\* C17: each of the three planners returns the solver's status code to the
\* caller unchanged, after a single call of the solver: a status that is not
\* the nominal one is neither replaced, nor retried, nor turned into an
\* exception; a call that raises does so before the solver is reached.
C17_StatusPassedThrough ==
    /\ ik_result.status = "returned" => StatusUnchanged
    /\ ik_result.status = "raised" => ik_result.solver_calls = 0
    /\ ik_result.status \in {"none", "pending", "returned", "raised"}

C17_Witness ==
    /\ EeReturned
    /\ ik_result.solver_info # 1
    /\ ik_result.info = ik_result.solver_info

\* C19: for n_knots >= 2 and 0 <= reach_time <= grasp_time, the final knot
\* (at grasp_time) is constrained to exactly target_grasp_pose.
C19_FinalKnotTargetsGrasp ==
    (EeReturned /\ ik_call.n_knots >= 2 /\ ik_call.reach_time >= 0
     /\ ik_call.reach_time <= ik_call.grasp_time) =>
        /\ ik_call.n_knots - 1 \in ConstrainedKnots
        /\ \A m \in 1..Len(EePart) :
              EePart[m].knot = ik_call.n_knots - 1 =>
                  Targets(EePart[m], ik_call.target_grasp_pose)

\* C20: for n_knots >= 2 and every reach_time, reach_start_index is a knot
\* index in 0..n_knots-1, the loop never reads a knot through a negative
\* index, and no knot receives two different pose targets.
C20_ReachIndexValid ==
    (EeReturned /\ ik_call.n_knots >= 2) =>
        /\ ik_result.reach_start_index \in 0..(ik_call.n_knots - 1)
        /\ \A m \in 1..Len(EePart) : EePart[m].index >= 0
        /\ \A a, b \in 1..Len(EePart) :
              (EePart[a].knot = EePart[b].knot /\ EePart[a].kind = EePart[b].kind)
              => (EePart[a].target.n * EePart[b].target.d
                  = EePart[b].target.n * EePart[a].target.d)
====
